CONSTANTS
  Attempts = 2
  Limit = 3
SPECIFICATION FairSpec
INVARIANTS TypeOK HealthyJobNeverFails WrittenResultIsTaken
PROPERTIES WaitEnds StopEndsWait
CHECK_DEADLOCK FALSE
