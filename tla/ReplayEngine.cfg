SPECIFICATION EngineSpec
CONSTANTS
  Streams = {s1}
  Jobs <- AllJobs
  Attempts = 3
  Earliest = 1
  MaxOffset = 5
INVARIANTS
  EveryMessageCountedOnce
  DeliveredInOrder
  CountedMeansDelivered
  FinalMeansRangeRead
  PercentWithinBounds
PROPERTIES
  EndsOncePastEnd
  CopiesARange
\* A generator that is exhausted, dropped or waits for a record stops.
CHECK_DEADLOCK FALSE
