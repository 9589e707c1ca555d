SPECIFICATION Spec
CONSTANTS
  PoolSize = 2
  Callers = {c1, c2}
  NoCaller = NoCaller
  MaxFaults = 2
INVARIANTS
  TypeOK
  ErrorsAreTrue
  NothingLeftOpen
PROPERTIES
  PoolRecovers
  CallsEnd
