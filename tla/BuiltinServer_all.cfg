CONSTANTS
  Exporters = {e1}
  Importers = {i1}
  Visitors = {v1}
  Paths = {p, q}
  Samples = {s1}
  Exits = TRUE
  None = None Torn = Torn Foreign = Foreign
SYMMETRY FileSymmetry
SPECIFICATION Spec
INVARIANTS TypeOK StartThenServe ExportsAreWhole
CHECK_DEADLOCK FALSE
