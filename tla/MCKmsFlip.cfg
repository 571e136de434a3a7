SPECIFICATION FairSpec
CONSTANTS
  Screens = {s1, s2}
  BOs = {b1, b2, b3}
  NoScreen = NoScreen
  NoBO = NoBO
  Gone = Gone
  MaxDisturbances = 2
INVARIANTS TypeOK WaitsAreMatched NoEndlessWait ShownIsLocked NoBufferLost
PROPERTIES WaitEnds
CHECK_DEADLOCK FALSE
