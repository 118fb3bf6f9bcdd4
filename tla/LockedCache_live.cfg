CONSTANTS
  Threads = {t1, t2, t3}
  Keys = {k1}
  none = none light = light heavy = heavy
  Values = {none, light}
  EmptyValues <- MCEmptyValues
  Weight <- MCUnweighed
  MaxItems = 1
  MaxWeight = NoLimit
  MaxCalls = 1
  NoThread = NoThread NoKey = NoKey NoValue = NoValue NoLimit = NoLimit
SPECIFICATION FairSpec
PROPERTIES EveryCallReturns StopIsHonoured
