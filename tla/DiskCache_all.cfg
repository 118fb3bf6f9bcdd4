CONSTANTS
  a = a b = b c = c big = big l1 = l1 l2 = l2
  Loaders = {l1, l2}
  Storers = {s1, s2}
  Keys = {a, b, c, big}
  Size <- MCSize
  Setups <- MCSetups
  MaxBytes = 3
  MaxFiles = 2
  MaxMishaps = 1
  Collects = TRUE
  None = None
SYMMETRY Symmetry
SPECIFICATION Spec
INVARIANTS TypeOK CollectorPausedWhileLoading NeverReadInPart FolderBounded
CHECK_DEADLOCK FALSE
