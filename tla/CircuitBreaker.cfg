SPECIFICATION Spec
CONSTANTS
  Callers = {c1, c2, c3}
  FailureThreshold = 2
  RecoveryTimeout = 2
  Expected <- OnlyTransient
  MaxAttempts = 2
  MaxTime = 4
  MaxRequests = 3
INVARIANTS
  TypeOK
  TrippedMeansThreshold
  HalfOpenIsRested
  AttemptsAreBounded
PROPERTIES
  BreakerIsASwitch
  RequestsEnd
\* The clock and the requests are bounded: the callers come to rest.
CHECK_DEADLOCK FALSE
