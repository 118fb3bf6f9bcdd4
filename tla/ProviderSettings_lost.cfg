CONSTANTS
  Visits = {v1}
  Objects = {o1}
  Values = {x}
  Tokens = {k1, k2}
  Broken = Broken
  None = None
SPECIFICATION Spec
INVARIANTS UpdateIsKept
CHECK_DEADLOCK FALSE
