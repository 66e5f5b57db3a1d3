SPECIFICATION FairSpec
CONSTANTS
  Capacity = 4
  MaxOwed = 2
  SelfStopped = {1, 2, 3, 4}
  Throwing = {1, 2, 3, 4}
CHECK_DEADLOCK FALSE
INVARIANTS
  DependentsFirst
  StoppedMeansAll
PROPERTIES
  ShutdownEnds
