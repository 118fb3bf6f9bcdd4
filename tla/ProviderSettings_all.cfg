CONSTANTS
  Visits = {v1, v2}
  Objects = {o1, o2}
  Values = {x, y}
  Tokens = {k1, k2}
  Broken = Broken
  None = None
SYMMETRY Symmetry
VIEW WithoutApplied
SPECIFICATION Spec
INVARIANTS TypeOK LatestTokenKept VisitUsesItsSettings
CHECK_DEADLOCK FALSE
