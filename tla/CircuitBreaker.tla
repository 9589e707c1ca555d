--------------------------- MODULE CircuitBreaker ---------------------------
(***************************************************************************)
(* CircuitBreaker of the messaging adapter, with concurrent callers of     *)
(* call_async whose operations are retried by retry_async.                 *)
(*                                                                         *)
(* The breaker has no lock: between the admission of a call and its        *)
(* outcome lies the await of the operation, and in the meantime other      *)
(* callers, the clock and reset() move the breaker.  A call of the         *)
(* synchronous call() is an admission followed at once by its outcome.     *)
(***************************************************************************)
EXTENDS Integers, FiniteSets

CONSTANTS
  Callers,
  FailureThreshold,  \* failure_threshold
  RecoveryTimeout,   \* recovery_timeout
  Expected,          \* kinds of failure that are an expected_exception
  MaxAttempts,       \* max_attempts of the RetryConfig
  MaxTime,           \* BOUND: how far the clock goes
  MaxRequests        \* BOUND: requests in all

\* Transient: KafkaBrokerError, ConnectionError, TimeoutError of the adapter.
\* Permanent: any other Exception.  Cancelled: CancelledError, no Exception.
Failures == {"transient", "permanent"}

ASSUME BreakerAssumption ==
  /\ FailureThreshold \in Nat \ {0}
  /\ RecoveryTimeout \in Nat
  /\ Expected \subseteq Failures
  /\ MaxAttempts \in Nat \ {0}
  /\ MaxTime \in Nat /\ MaxRequests \in Nat

NoTime == -1

VARIABLES
  state,            \* "closed", "open" or "half-open"
  failureCount,     \* failure_count
  lastFailureTime,  \* last_failure_time, NoTime when None
  now,              \* the clock
  pc,               \* where each caller's retry loop stands
  attempt,          \* attempt, counted from 0
  invoked,          \* how often the caller's operation was started
  requests,         \* requests so far
  raisedAt          \* history: when an operation last raised an expected
                    \* exception, NoTime if not since the last reset

breaker == <<state, failureCount, lastFailureTime>>
vars == <<state, failureCount, lastFailureTime, now, pc, attempt, invoked, requests, raisedAt>>

\* "attempt": about to enter call_async; "calling": its operation runs;
\* "backoff": asleep before the next attempt.  Then the outcomes.
Outcomes == {"returned", "refused", "raised", "exhausted", "cancelled"}
CallerPC == {"idle", "attempt", "calling", "backoff"} \union Outcomes

Init ==
  /\ state = "closed" /\ failureCount = 0 /\ lastFailureTime = NoTime
  /\ now = 0
  /\ pc = [c \in Callers |-> "idle"]
  /\ attempt = [c \in Callers |-> 0]
  /\ invoked = [c \in Callers |-> 0]
  /\ requests = 0
  /\ raisedAt = NoTime

-----------------------------------------------------------------------------
(* The breaker *)

\* _should_attempt_recovery
ShouldAttemptRecovery ==
  lastFailureTime = NoTime \/ now - lastFailureTime >= RecoveryTimeout

\* Mutant: an open breaker forgets its failures when it lets a call through.
AdmitForgetting ==
  IF state = "open"
  THEN /\ ShouldAttemptRecovery
       /\ state' = "half-open" /\ failureCount' = 0
       /\ UNCHANGED lastFailureTime
  ELSE UNCHANGED breaker

\* The head of call_async.  An open breaker lets a call through as half-open
\* once the timeout has passed; a half-open one lets every call through.
Admit ==
  IF state = "open"
  THEN /\ ShouldAttemptRecovery
       /\ state' = "half-open"
       /\ UNCHANGED <<failureCount, lastFailureTime>>
  ELSE UNCHANGED breaker

Refuses == state = "open" /\ ~ShouldAttemptRecovery

\* Mutant: a success closes the breaker whatever its state.
OnSuccessAlways ==
  /\ state' = "closed" /\ failureCount' = 0
  /\ UNCHANGED lastFailureTime

\* Mutant: a success takes one failure off the count.
OnSuccessTakesOneOff ==
  /\ IF state = "half-open" THEN state' = "closed" /\ failureCount' = 0
                            ELSE state' = state /\ failureCount' = failureCount - 1
  /\ UNCHANGED lastFailureTime

\* _on_success: a success that arrives while the breaker is open changes nothing.
OnSuccess ==
  /\ IF state = "open" THEN UNCHANGED <<state, failureCount>>
                       ELSE state' = "closed" /\ failureCount' = 0
  /\ UNCHANGED lastFailureTime

\* Mutant: the time is taken only when the breaker opens.
OnFailureTimedOnce ==
  /\ failureCount' = failureCount + 1
  /\ lastFailureTime' = IF state = "closed" THEN now ELSE lastFailureTime
  /\ state' = IF failureCount + 1 >= FailureThreshold THEN "open" ELSE state

\* _on_failure
OnFailure ==
  /\ failureCount' = failureCount + 1
  /\ lastFailureTime' = now
  /\ state' = IF failureCount + 1 >= FailureThreshold THEN "open" ELSE state

-----------------------------------------------------------------------------
(* retry_async around call_async *)

Goes(c, from, to) ==
  /\ pc[c] \in from
  /\ pc' = [pc EXCEPT ![c] = to]

\* A request comes in; the caller's last one has an outcome.
Request(c) ==
  /\ requests < MaxRequests
  /\ requests' = requests + 1
  /\ Goes(c, {"idle"} \union Outcomes, "attempt")
  /\ attempt' = [attempt EXCEPT ![c] = 0]
  /\ invoked' = [invoked EXCEPT ![c] = 0]
  /\ UNCHANGED <<breaker, now, raisedAt>>

Enter(c) ==
  /\ Goes(c, {"attempt"}, "calling")
  /\ Admit
  /\ invoked' = [invoked EXCEPT ![c] = @ + 1]
  /\ UNCHANGED <<now, attempt, requests, raisedAt>>

\* "Circuit breaker is open" is a MessagingAdapterError of no transient kind:
\* the retry loop passes it on at once, on its first attempt or a later one.
Refused(c) ==
  /\ Refuses
  /\ Goes(c, {"attempt"}, "refused")
  /\ UNCHANGED <<breaker, now, attempt, invoked, requests, raisedAt>>

Returns(c) ==
  /\ Goes(c, {"calling"}, "returned")
  /\ OnSuccess
  /\ UNCHANGED <<now, attempt, invoked, requests, raisedAt>>

\* What the breaker makes of an exception of its operation.
Counted(kind) ==
  IF kind \in Expected THEN OnFailure /\ raisedAt' = now
                       ELSE UNCHANGED <<breaker, raisedAt>>

\* Mutant: the attempts are counted from one.
RaisesTransientOnceMore(c) ==
  /\ IF attempt[c] < MaxAttempts
     THEN Goes(c, {"calling"}, "backoff") /\ attempt' = [attempt EXCEPT ![c] = @ + 1]
     ELSE Goes(c, {"calling"}, "exhausted") /\ UNCHANGED attempt
  /\ Counted("transient")
  /\ UNCHANGED <<now, invoked, requests>>

\* A transient failure is retried after a delay unless it was the last attempt.
RaisesTransient(c) ==
  /\ IF attempt[c] < MaxAttempts - 1
     THEN Goes(c, {"calling"}, "backoff") /\ attempt' = [attempt EXCEPT ![c] = @ + 1]
     ELSE Goes(c, {"calling"}, "exhausted") /\ UNCHANGED attempt
  /\ Counted("transient")
  /\ UNCHANGED <<now, invoked, requests>>

RaisesPermanent(c) ==
  /\ Goes(c, {"calling"}, "raised")
  /\ Counted("permanent")
  /\ UNCHANGED <<now, attempt, invoked, requests>>

\* Mutant: a sleeping caller waits for the breaker to close.
WakesWhenClosed(c) ==
  /\ state = "closed"
  /\ Goes(c, {"backoff"}, "attempt")
  /\ UNCHANGED <<breaker, now, attempt, invoked, requests, raisedAt>>

\* asyncio.sleep(delay) ends.  The delay, 0.5 to 1.5 times the backoff, is left out.
Wakes(c) ==
  /\ Goes(c, {"backoff"}, "attempt")
  /\ UNCHANGED <<breaker, now, attempt, invoked, requests, raisedAt>>

\* CancelledError is no Exception: neither the breaker nor the retry loop sees it.
\* A cancelled probe leaves the breaker half-open.
Cancelled(c) ==
  /\ Goes(c, {"calling", "backoff"}, "cancelled")
  /\ UNCHANGED <<breaker, now, attempt, invoked, requests, raisedAt>>

\* reset()
Reset ==
  /\ state' = "closed" /\ failureCount' = 0 /\ lastFailureTime' = NoTime
  /\ raisedAt' = NoTime
  /\ UNCHANGED <<now, pc, attempt, invoked, requests>>

Tick ==
  /\ now < MaxTime
  /\ now' = now + 1
  /\ UNCHANGED <<breaker, pc, attempt, invoked, requests, raisedAt>>

Advance(c) ==
  \/ Enter(c) \/ Refused(c) \/ Wakes(c)
  \/ Returns(c) \/ RaisesTransient(c) \/ RaisesPermanent(c)

Next ==
  \/ \E c \in Callers : Request(c) \/ Advance(c) \/ Cancelled(c)
  \/ Reset
  \/ Tick

\* A retry loop goes on while its task is scheduled: a sleep ends, and the
\* adapter's request timeout bounds every operation.
Fairness == \A c \in Callers : WF_vars(Advance(c))

Spec == Init /\ [][Next]_vars /\ Fairness

-----------------------------------------------------------------------------
(* Properties *)

\* Every variable holds a value the code can produce.
TypeOK ==
  /\ state \in {"closed", "open", "half-open"}
  /\ failureCount \in Nat
  /\ now \in Nat
  /\ lastFailureTime \in Nat \union {NoTime}
  /\ raisedAt \in Nat \union {NoTime}
  /\ pc \in [Callers -> CallerPC]
  /\ attempt \in [Callers -> 0..(MaxAttempts - 1)]
  /\ invoked \in [Callers -> Nat]
  /\ requests \in Nat

\* The two representations of "tripped" agree however calls, outcomes of calls
\* admitted earlier, and resets interleave: the breaker is closed exactly as
\* long as it counts fewer failures than the threshold.  So a half-open breaker,
\* whose count is not cleared, opens again at the first failure.
TrippedMeansThreshold == (state # "closed") <=> (failureCount >= FailureThreshold)

\* While the breaker is half-open no operation has failed for recovery_timeout,
\* not even one that was admitted before it opened and failed late: every such
\* failure puts off the recovery.
HalfOpenIsRested ==
  state = "half-open" => raisedAt # NoTime /\ now - raisedAt >= RecoveryTimeout

\* The breaker implements a switch that trips at the threshold-th failure in a row,
\* rests and is tried: see TripSwitch.  What callers do between the admission of a
\* call and its outcome does not show: an outcome counts for the state it arrives in.
\* So that of a call admitted earlier does not close an open breaker, keep it closed
\* or shorten its rest, nor does the count that stays behind while it is tripped or a
\* reset; but in a half-open breaker it is taken for the trial's own, and a late
\* success closes it.
Switch == INSTANCE TripSwitch WITH
  Limit   <- FailureThreshold,
  Rest    <- RecoveryTimeout,
  mode    <- state,
  strikes <- IF state = "closed" THEN failureCount ELSE 0,
  last    <- raisedAt,
  clock   <- now
BreakerIsASwitch == Switch!Spec

\* A request starts its operation at most max_attempts times, gives up as
\* exhausted only after exactly so many, and the attempts that a breaker refuses
\* start none.
AttemptsAreBounded ==
  \A c \in Callers :
    /\ invoked[c] <= MaxAttempts
    /\ pc[c] = "exhausted" => invoked[c] = MaxAttempts
    /\ pc[c] \in {"attempt", "backoff", "refused"} => invoked[c] = attempt[c]

\* Every request has an outcome, whatever the breaker does to its attempts.
RequestsEnd == \A c \in Callers : pc[c] = "attempt" ~> pc[c] \in Outcomes

=============================================================================
