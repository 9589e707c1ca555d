SPECIFICATION EngineSpec
CONSTANTS
  Streams = {s1}
  Jobs <- PlainJob
  Attempts = 2
  Earliest = 1
  MaxOffset = 4
INVARIANT OffsetEndIsInclusive
CHECK_DEADLOCK FALSE
