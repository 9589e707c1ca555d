SPECIFICATION Spec
CONSTANTS
  Scripts = {s1}
  Callers = {c1, c2}
  Workers = {w1}
  NoScript = NoScript
  Nobody = Nobody
  MaxQueue = 1
INVARIANTS
  TypeOK
  HistoryIsTruthful
PROPERTIES
  CallsAreRunOnce
  ArchivedComesToRest
  OthersGetThrough
  TimedCallsEnd
CHECK_DEADLOCK FALSE
