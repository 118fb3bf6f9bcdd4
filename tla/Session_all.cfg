CONSTANTS
  A = A B = B v1 = v1 v2 = v2
  even = even thumb = thumb absent = absent unknown = unknown
  Bits = 4
  None = None
  Visits = {v1, v2}
  Nodes = {A, B}
  Fids = {even, thumb, absent, unknown}
  Texts <- MCTexts
  Functions <- MCFunctions
  Server <- MCServer
  Params <- MCParams
  Setups <- MCSetups
  Shapes <- MCShapes
  Budget = 20
SPECIFICATION SessionSpec
INVARIANTS SessionTypeOK OneEntityPerFunction ResultsNameTheirFunctions NothingIsLost LeadDecidesConfidence PaintIsExact
PROPERTY NamesAreKept
CHECK_DEADLOCK FALSE
