CONSTANTS
  Threads = {t1, t2}
  Keys = {k1, k2, k3}
  none = none light = light heavy = heavy
  Values <- MCValues
  EmptyValues <- MCEmptyValues
  Weight <- MCWeight
  MaxItems = 2
  MaxWeight = 3
  MaxCalls = NoLimit
  NoThread = NoThread NoKey = NoKey NoValue = NoValue NoLimit = NoLimit
SYMMETRY CacheSymmetry
SPECIFICATION Spec
INVARIANTS TypeOK OrderIsContent WeightAccounting Bounded OneBuilder NoLostWakeup
PROPERTIES ImplementsSingleFlight
