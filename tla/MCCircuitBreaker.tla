-------------------------- MODULE MCCircuitBreaker --------------------------
(* CircuitBreaker on a small instance. *)
EXTENDS CircuitBreaker

\* Only transient failures are counted, as with expected_exception set to
\* KafkaBrokerError; with Exception both kinds are, which adds no new step.
OnlyTransient == {"transient"}
=============================================================================
