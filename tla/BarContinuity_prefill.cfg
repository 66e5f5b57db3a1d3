SPECIFICATION Spec
CONSTANTS
  Mode = "recover"
  PrefillBars = 2
  MaxBackfill = 2
  MaxBatches = 2
  MaxItems = 3
  MaxAttempts = 2
  FirstSlot = 3
  MaxSlot = 5
  MaxLosses = 1
  Trading = {1,2,3,4,5}
CHECK_DEADLOCK FALSE
INVARIANT LiveHasItsPrefill
