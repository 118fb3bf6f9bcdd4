CONSTANTS
  T = T A = A B = B C = C v1 = v1 v2 = v2 s1 = s1 s2 = s2
  Files = {T, A, B, C}
  Target = T
  Visits = {v1, v2}
  Sessions = {s1, s2}
  Attempts = 2
  Setups <- MCSetups
  None = None
SPECIFICATION FairSpec
INVARIANTS TypeOK AnswerCoversTheEdge TroubleStaysPrivate OnlyLostUploadsAreRepeated
PROPERTY VisitsEnd
CHECK_DEADLOCK FALSE
