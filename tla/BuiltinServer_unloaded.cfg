CONSTANTS
  Exporters = {e1}
  Importers = {}
  Visitors = {v1}
  Paths = {p}
  Samples = {s1}
  Exits = TRUE
  None = None Torn = Torn Foreign = Foreign
SYMMETRY FileSymmetry
SPECIFICATION Spec
PROPERTIES UnloadedCorpusKept
CHECK_DEADLOCK FALSE
