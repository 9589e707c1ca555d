SPECIFICATION Spec
CONSTANTS
  Ids = {id1}
  Topics = {t1}
INVARIANTS
  ConfirmedAvroIsDecoded
