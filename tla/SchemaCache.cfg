SPECIFICATION Spec
CONSTANTS
  a = a
  b = b
  c1 = c1
  c2 = c2
  list = list
  Schemas = {a, b}
  Subjects = list
  Callers = {c1, c2}
  MaxSize = 2
  Ttl = 1
  Timeout = 1
  MaxVersion <- Growth
  MaxTime = 3
INVARIANTS
  TypeOK
  OrderedByUse
  HitsAreFresh
SYMMETRY
  Alike
