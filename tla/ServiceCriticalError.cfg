SPECIFICATION SafeOnFullLog
CONSTANTS
  Streams = {s1}
  Starters = {s1}
  Resumers = {}
  Controllers = {c1}
  Jobs <- TwoMessages
  Attempts = 2
  Earliest = 1
  MaxOffset = 4
  MaxLive = 1
  MaxRequests = 0
  MaxDbFaults = 0
INVARIANT CriticalErrorMarksFailed
CHECK_DEADLOCK FALSE
