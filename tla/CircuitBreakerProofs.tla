------------------------ MODULE CircuitBreakerProofs ------------------------
(***************************************************************************)
(* Theorems about CircuitBreaker for every threshold, timeout, number of   *)
(* attempts and set of callers.  No proof uses MaxTime or MaxRequests.     *)
(***************************************************************************)
EXTENDS CircuitBreaker, TLAPS

-----------------------------------------------------------------------------
(* Type correctness *)

LEMMA TypeStep == TypeOK /\ [Next]_vars => TypeOK'
<1> SUFFICES ASSUME TypeOK, [Next]_vars PROVE TypeOK'
  OBVIOUS
<1> USE BreakerAssumption DEF TypeOK, CallerPC, Outcomes, NoTime
<1>1. ASSUME NEW c \in Callers, Request(c) PROVE TypeOK'
  BY <1>1 DEF Request, Goes, breaker
<1>2. ASSUME NEW c \in Callers, Enter(c) PROVE TypeOK'
  BY <1>2 DEF Enter, Goes, Admit, ShouldAttemptRecovery, breaker
<1>3. ASSUME NEW c \in Callers, Refused(c) PROVE TypeOK'
  BY <1>3 DEF Refused, Goes, breaker
<1>4. ASSUME NEW c \in Callers, Returns(c) PROVE TypeOK'
  BY <1>4 DEF Returns, Goes, OnSuccess
<1>5. ASSUME NEW c \in Callers, RaisesTransient(c) PROVE TypeOK'
  BY <1>5 DEF RaisesTransient, Goes, Counted, OnFailure, breaker
<1>6. ASSUME NEW c \in Callers, RaisesPermanent(c) PROVE TypeOK'
  BY <1>6 DEF RaisesPermanent, Goes, Counted, OnFailure, breaker
<1>7. ASSUME NEW c \in Callers, Wakes(c) PROVE TypeOK'
  BY <1>7 DEF Wakes, Goes, breaker
<1>8. ASSUME NEW c \in Callers, Cancelled(c) PROVE TypeOK'
  BY <1>8 DEF Cancelled, Goes, breaker
<1>9. CASE Reset
  BY <1>9 DEF Reset
<1>10. CASE Tick
  BY <1>10 DEF Tick, breaker
<1>11. CASE UNCHANGED vars
  BY <1>11 DEF vars
<1> QED
  BY <1>1, <1>2, <1>3, <1>4, <1>5, <1>6, <1>7, <1>8, <1>9, <1>10, <1>11 DEF Next, Advance

\* Every variable keeps the values the code can give it.
THEOREM BreakerTypeCorrect == Spec => []TypeOK
<1>1. Init => TypeOK
  BY BreakerAssumption DEF Init, TypeOK, CallerPC, NoTime
<1> QED
  BY <1>1, TypeStep, PTL DEF Spec

-----------------------------------------------------------------------------
(* The breaker.  Its last failure is the latest one of any call, and the   *)
(* count stays at the threshold or above from opening until it closes.     *)

BreakerInv ==
  /\ TrippedMeansThreshold
  /\ raisedAt = lastFailureTime
  /\ lastFailureTime <= now
  /\ state # "closed" => lastFailureTime # NoTime
  /\ state = "half-open" => now - lastFailureTime >= RecoveryTimeout

LEMMA BreakerStep == TypeOK /\ BreakerInv /\ [Next]_vars => BreakerInv'
<1> SUFFICES ASSUME TypeOK, BreakerInv, [Next]_vars PROVE BreakerInv'
  OBVIOUS
<1> USE BreakerAssumption DEF TypeOK, BreakerInv, TrippedMeansThreshold, NoTime
<1>1. ASSUME NEW c \in Callers, Request(c) PROVE BreakerInv'
  BY <1>1 DEF Request, Goes, breaker
<1>2. ASSUME NEW c \in Callers, Enter(c) PROVE BreakerInv'
  BY <1>2 DEF Enter, Goes, Admit, ShouldAttemptRecovery, breaker
<1>3. ASSUME NEW c \in Callers, Refused(c) PROVE BreakerInv'
  BY <1>3 DEF Refused, Goes, breaker
<1>4. ASSUME NEW c \in Callers, Returns(c) PROVE BreakerInv'
  BY <1>4 DEF Returns, Goes, OnSuccess
<1>5. ASSUME NEW c \in Callers, RaisesTransient(c) PROVE BreakerInv'
  BY <1>5 DEF RaisesTransient, Goes, Counted, OnFailure, breaker
<1>6. ASSUME NEW c \in Callers, RaisesPermanent(c) PROVE BreakerInv'
  BY <1>6 DEF RaisesPermanent, Goes, Counted, OnFailure, breaker
<1>7. ASSUME NEW c \in Callers, Wakes(c) PROVE BreakerInv'
  BY <1>7 DEF Wakes, Goes, breaker
<1>8. ASSUME NEW c \in Callers, Cancelled(c) PROVE BreakerInv'
  BY <1>8 DEF Cancelled, Goes, breaker
<1>9. CASE Reset
  BY <1>9 DEF Reset
<1>10. CASE Tick
  BY <1>10 DEF Tick, breaker
<1>11. CASE UNCHANGED vars
  BY <1>11 DEF vars
<1> QED
  BY <1>1, <1>2, <1>3, <1>4, <1>5, <1>6, <1>7, <1>8, <1>9, <1>10, <1>11 DEF Next, Advance

LEMMA BreakerAlways == Spec => []BreakerInv
<1>1. Init => BreakerInv
  BY BreakerAssumption DEF Init, BreakerInv, TrippedMeansThreshold, NoTime
<1> QED
  BY <1>1, BreakerStep, BreakerTypeCorrect, PTL DEF Spec

\* The breaker is closed exactly while it counts fewer failures than the threshold.
THEOREM TrippedExactlyAtThreshold == Spec => []TrippedMeansThreshold
<1>1. BreakerInv => TrippedMeansThreshold
  BY DEF BreakerInv
<1> QED
  BY <1>1, BreakerAlways, PTL

\* While the breaker is half-open no call has failed for the recovery timeout.
THEOREM HalfOpenIsAlwaysRested == Spec => []HalfOpenIsRested
<1>1. BreakerInv => HalfOpenIsRested
  BY DEF BreakerInv, HalfOpenIsRested
<1> QED
  BY <1>1, BreakerAlways, PTL

-----------------------------------------------------------------------------
(* The switch.  BreakerInv makes the mapping work: the count decides, and   *)
(* the abstract switch looks at its own state instead.                      *)

\* Where the breaker has to look at its count, the switch looks at its mode.
LEMMA FailureIsAbstract ==
  ASSUME TypeOK, BreakerInv, OnFailure, raisedAt' = now, UNCHANGED now
  PROVE  Switch!Strike \/ Switch!Trip \/ Switch!FailLate
<1> USE BreakerAssumption
    DEF TypeOK, BreakerInv, TrippedMeansThreshold, OnFailure,
        Switch!Strike, Switch!Trip, Switch!FailLate
<1>1. CASE state = "closed" /\ failureCount + 1 < FailureThreshold
  BY <1>1
<1>2. CASE state = "closed" /\ failureCount + 1 >= FailureThreshold
  BY <1>2
<1>3. CASE state = "half-open"
  BY <1>3
<1>4. CASE state = "open"
  BY <1>4
<1> QED
  BY <1>1, <1>2, <1>3, <1>4

LEMMA SuccessIsAbstract ==
  ASSUME OnSuccess, UNCHANGED <<raisedAt, now>>
  PROVE  Switch!Succeed \/ UNCHANGED Switch!vars
BY DEF OnSuccess, Switch!Succeed, Switch!vars

LEMMA AdmissionIsAbstract ==
  ASSUME TypeOK, BreakerInv, Admit, UNCHANGED <<raisedAt, now>>
  PROVE  Switch!Probe \/ UNCHANGED Switch!vars
BY DEF TypeOK, BreakerInv, Admit, ShouldAttemptRecovery, breaker, NoTime,
       Switch!Probe, Switch!vars

\* An exception of an operation is a failure of the switch, or none if the breaker
\* does not expect it.
LEMMA ExceptionIsAbstract ==
  ASSUME TypeOK, BreakerInv, NEW kind, Counted(kind), UNCHANGED now
  PROVE  [Switch!Next]_(Switch!vars)
<1>1. CASE kind \in Expected
  BY <1>1, FailureIsAbstract DEF Counted, Switch!Next
<1>2. CASE kind \notin Expected
  BY <1>2 DEF Counted, breaker, Switch!vars
<1> QED
  BY <1>1, <1>2

LEMMA SwitchStep == TypeOK /\ BreakerInv /\ [Next]_vars => [Switch!Next]_(Switch!vars)
<1> SUFFICES ASSUME TypeOK, BreakerInv, [Next]_vars PROVE [Switch!Next]_(Switch!vars)
  OBVIOUS
<1>1. ASSUME NEW c \in Callers, Request(c) \/ Refused(c) \/ Wakes(c) \/ Cancelled(c)
      PROVE  [Switch!Next]_(Switch!vars)
  BY <1>1 DEF Request, Refused, Wakes, Cancelled, breaker, Switch!vars
<1>2. ASSUME NEW c \in Callers, Enter(c) PROVE [Switch!Next]_(Switch!vars)
  BY <1>2, AdmissionIsAbstract DEF Enter, Switch!Next
<1>3. ASSUME NEW c \in Callers, Returns(c) PROVE [Switch!Next]_(Switch!vars)
  BY <1>3, SuccessIsAbstract DEF Returns, Switch!Next
<1>4. ASSUME NEW c \in Callers, RaisesTransient(c) \/ RaisesPermanent(c)
      PROVE  [Switch!Next]_(Switch!vars)
  BY <1>4, ExceptionIsAbstract DEF RaisesTransient, RaisesPermanent
<1>5. CASE Reset
  BY <1>5 DEF Reset, NoTime, Switch!Never, Switch!Reset, Switch!Next
<1>6. CASE Tick
  BY <1>6 DEF Tick, breaker, Switch!Tick, Switch!Next
<1>7. CASE UNCHANGED vars
  BY <1>7 DEF vars, Switch!vars
<1> QED
  BY <1>1, <1>2, <1>3, <1>4, <1>5, <1>6, <1>7 DEF Next, Advance

\* The breaker implements the switch: whatever its callers, late outcomes, cancelled
\* probes and resets do, it trips at the threshold-th failure in a row, rests for the
\* recovery timeout after the last failure of all, and closes at the first success or
\* trips at the first failure after that.
THEOREM BreakerImplementsSwitch == Spec => BreakerIsASwitch
<1>1. Init => Switch!Init
  BY DEF Init, NoTime, Switch!Init, Switch!Never
<1>2. TypeOK /\ BreakerInv /\ [Next]_vars => [Switch!Next]_(Switch!vars)
  BY SwitchStep
<1> QED
  BY <1>1, <1>2, BreakerTypeCorrect, BreakerAlways, PTL DEF Spec, BreakerIsASwitch, Switch!Spec

-----------------------------------------------------------------------------
(* Attempts.  While its operation runs, a caller has started it once more  *)
(* than it has failed.                                                     *)

Tries(c) ==
  /\ pc[c] \in {"attempt", "backoff", "refused"} => invoked[c] = attempt[c]
  /\ pc[c] = "calling" => invoked[c] = attempt[c] + 1
  /\ pc[c] = "exhausted" => invoked[c] = MaxAttempts
  /\ invoked[c] <= MaxAttempts

TriesInv == \A c \in Callers : Tries(c)

LEMMA TriesStep == TypeOK /\ TriesInv /\ [Next]_vars => TriesInv'
<1> SUFFICES ASSUME TypeOK, TriesInv, [Next]_vars, NEW d \in Callers PROVE Tries(d)'
  BY DEF TriesInv
<1> Tries(d)
  BY DEF TriesInv
<1> USE BreakerAssumption DEF TypeOK, Tries, Outcomes, CallerPC
<1>1. ASSUME NEW c \in Callers, Request(c) PROVE Tries(d)'
  BY <1>1 DEF Request, Goes, breaker
<1>2. ASSUME NEW c \in Callers, Enter(c) PROVE Tries(d)'
  BY <1>2 DEF Enter, Goes
<1>3. ASSUME NEW c \in Callers, Refused(c) PROVE Tries(d)'
  BY <1>3 DEF Refused, Goes, breaker
<1>4. ASSUME NEW c \in Callers, Returns(c) PROVE Tries(d)'
  BY <1>4 DEF Returns, Goes
<1>5. ASSUME NEW c \in Callers, RaisesTransient(c) PROVE Tries(d)'
  BY <1>5 DEF RaisesTransient, Goes
<1>6. ASSUME NEW c \in Callers, RaisesPermanent(c) PROVE Tries(d)'
  BY <1>6 DEF RaisesPermanent, Goes
<1>7. ASSUME NEW c \in Callers, Wakes(c) PROVE Tries(d)'
  BY <1>7 DEF Wakes, Goes, breaker
<1>8. ASSUME NEW c \in Callers, Cancelled(c) PROVE Tries(d)'
  BY <1>8 DEF Cancelled, Goes, breaker
<1>9. CASE Reset
  BY <1>9 DEF Reset
<1>10. CASE Tick
  BY <1>10 DEF Tick, breaker
<1>11. CASE UNCHANGED vars
  BY <1>11 DEF vars
<1> QED
  BY <1>1, <1>2, <1>3, <1>4, <1>5, <1>6, <1>7, <1>8, <1>9, <1>10, <1>11 DEF Next, Advance

\* A request starts its operation at most max_attempts times, and exactly that
\* often when it is given up as exhausted.
THEOREM AttemptsAreAlwaysBounded == Spec => []AttemptsAreBounded
<1>1. Init => TriesInv
  BY BreakerAssumption DEF Init, TriesInv, Tries
<1>2. TriesInv => AttemptsAreBounded
  BY DEF TriesInv, Tries, AttemptsAreBounded
<1> QED
  BY <1>1, <1>2, TriesStep, BreakerTypeCorrect, PTL DEF Spec
-----------------------------------------------------------------------------
(* Why RequestsEnd holds.  An attempt is at most three steps of its caller  *)
(* and attempts are used up.  Fairness, under which a caller that can take  *)
(* a step takes one, is left to TLC.                                        *)

Retrying(c) == pc[c] \in {"attempt", "calling", "backoff"}

StepsLeft(c) ==
  3 * (MaxAttempts - attempt[c])
    + (CASE pc[c] = "backoff" -> 2 [] pc[c] = "attempt" -> 1 [] OTHER -> 0)

\* A step brings the retry loop of c nearer to its end, or leaves it where it is if
\* it is another caller's, the clock's or the breaker's; or the loop has ended.
WindsDown(c) ==
  Retrying(c) /\ Retrying(c)' =>
    /\ StepsLeft(c)' <= StepsLeft(c)
    /\ Advance(c) => StepsLeft(c)' < StepsLeft(c)

LEMMA WindStep ==
  ASSUME TypeOK, [Next]_vars, NEW d \in Callers PROVE WindsDown(d)
<1> USE BreakerAssumption DEF TypeOK, WindsDown, Retrying, StepsLeft, Outcomes
<1>1. ASSUME NEW c \in Callers, Request(c) PROVE WindsDown(d)
  BY <1>1 DEF Request, Goes, Advance, Enter, Refused, Wakes, Returns, RaisesTransient, RaisesPermanent
<1>2. ASSUME NEW c \in Callers, Enter(c) PROVE WindsDown(d)
  BY <1>2 DEF Goes, Advance, Enter, Refused, Wakes, Returns, RaisesTransient, RaisesPermanent
<1>3. ASSUME NEW c \in Callers, Refused(c) PROVE WindsDown(d)
  BY <1>3 DEF Goes, Advance, Enter, Refused, Wakes, Returns, RaisesTransient, RaisesPermanent
<1>4. ASSUME NEW c \in Callers, Returns(c) PROVE WindsDown(d)
  BY <1>4 DEF Goes, Advance, Enter, Refused, Wakes, Returns, RaisesTransient, RaisesPermanent
<1>5. ASSUME NEW c \in Callers, RaisesTransient(c) PROVE WindsDown(d)
  BY <1>5 DEF Goes, Advance, Enter, Refused, Wakes, Returns, RaisesTransient, RaisesPermanent
<1>6. ASSUME NEW c \in Callers, RaisesPermanent(c) PROVE WindsDown(d)
  BY <1>6 DEF Goes, Advance, Enter, Refused, Wakes, Returns, RaisesTransient, RaisesPermanent
<1>7. ASSUME NEW c \in Callers, Wakes(c) PROVE WindsDown(d)
  BY <1>7 DEF Goes, Advance, Enter, Refused, Wakes, Returns, RaisesTransient, RaisesPermanent
<1>8. ASSUME NEW c \in Callers, Cancelled(c) PROVE WindsDown(d)
  BY <1>8 DEF Cancelled, Goes, Advance, Enter, Refused, Wakes, Returns, RaisesTransient, RaisesPermanent
<1>9. CASE UNCHANGED <<pc, attempt>>
  BY <1>9 DEF Goes, Advance, Enter, Refused, Wakes, Returns, RaisesTransient, RaisesPermanent
<1> QED
  BY <1>1, <1>2, <1>3, <1>4, <1>5, <1>6, <1>7, <1>8, <1>9
  DEF Next, Advance, Reset, Tick, vars

\* Every retry loop winds down: StepsLeft is a natural number, every step of the
\* caller lowers it and no other step raises it, so a request that is scheduled has an
\* outcome after at most 3 * MaxAttempts steps of its own.
THEOREM RetryLoopsWindDown ==
  Spec => /\ [](\A c \in Callers : StepsLeft(c) \in Nat)
          /\ [][\A c \in Callers : WindsDown(c)]_vars
<1>1. TypeOK => \A c \in Callers : StepsLeft(c) \in Nat
  BY BreakerAssumption DEF TypeOK, StepsLeft
<1>2. TypeOK /\ [Next]_vars => [\A c \in Callers : WindsDown(c)]_vars
  BY WindStep
<1> QED
  BY <1>1, <1>2, BreakerTypeCorrect, PTL DEF Spec

=============================================================================
