SPECIFICATION SafeOnGrowingLog
CONSTANTS
  Streams = {s1, s2}
  Starters = {s1, s2}
  Resumers = {s1, s2}
  Controllers = {c1}
  Jobs <- TwoMessages
  Attempts = 1
  Earliest = 1
  MaxOffset = 4
  MaxLive = 2
  MaxRequests = 1
  MaxDbFaults = 2
SYMMETRY Interchangeable
INVARIANTS
  ServiceTypeOK
  RunningHasStream
  UnstartedIsUntouched
  ReportedWasReplayed
  PauseStopsWithinOneMessage
\* Every stream is used once: the service comes to rest.
CHECK_DEADLOCK FALSE
