----------------------------- MODULE TripSwitch -----------------------------
(***************************************************************************)
(* What a circuit breaker promises, without callers, calls under way or    *)
(* attributes: closed, it trips at the Limit-th failure in a row; open, it *)
(* stays so until nothing has failed for Rest; half-open, one success      *)
(* closes it and one failure trips it again, whatever was counted before.  *)
(* CircuitBreaker implements it.                                           *)
(***************************************************************************)
EXTENDS Integers

CONSTANTS
  Limit,  \* failures in a row that trip it
  Rest    \* how long nothing may fail before it is tried again

VARIABLES
  mode,     \* "closed", "open" or "half-open"
  strikes,  \* failures in a row while it is closed
  last,     \* when something last failed, Never if nothing has since the reset
  clock

vars == <<mode, strikes, last, clock>>

Never == -1

Init ==
  /\ mode = "closed" /\ strikes = 0
  /\ last = Never /\ clock = 0

Strike ==
  /\ mode = "closed" /\ strikes + 1 < Limit
  /\ strikes' = strikes + 1 /\ last' = clock
  /\ UNCHANGED <<mode, clock>>

Trip ==
  /\ (mode = "closed" /\ strikes + 1 = Limit) \/ mode = "half-open"
  /\ mode' = "open" /\ strikes' = 0 /\ last' = clock
  /\ UNCHANGED clock

\* What fails while it is open was admitted before, and puts off the next trial.
FailLate ==
  /\ mode = "open"
  /\ last' = clock
  /\ UNCHANGED <<mode, strikes, clock>>

Probe ==
  /\ mode = "open"
  /\ clock - last >= Rest
  /\ mode' = "half-open"
  /\ UNCHANGED <<strikes, last, clock>>

\* A success ends the row of failures; while it is open it counts for nothing.
Succeed ==
  /\ mode # "open"
  /\ mode' = "closed" /\ strikes' = 0
  /\ UNCHANGED <<last, clock>>

Reset ==
  /\ mode' = "closed" /\ strikes' = 0 /\ last' = Never
  /\ UNCHANGED clock

Tick ==
  /\ clock' = clock + 1
  /\ UNCHANGED <<mode, strikes, last>>

Next == Strike \/ Trip \/ FailLate \/ Probe \/ Succeed \/ Reset \/ Tick

Spec == Init /\ [][Next]_vars

=============================================================================
