SPECIFICATION FairSpec
CONSTANTS
  Mode = "recover"
  PrefillBars = 3
  MaxBackfill = 2
  MaxBatches = 2
  MaxItems = 3
  MaxAttempts = 2
  FirstSlot = 4
  MaxSlot = 6
  MaxLosses = 1
  Trading = {1,2,3,4,5,6}
CHECK_DEADLOCK FALSE
INVARIANTS LiveIsGapFree NoBarLost
PROPERTIES OpenUntilProven RecoveryEnds
