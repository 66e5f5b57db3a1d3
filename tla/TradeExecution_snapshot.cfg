SPECIFICATION FairSpec
CONSTANTS
  Trades = {t1}
  MaxTrades = 2
  OrderInterval = 1
  QueueTimeout = 1
  ResponseTimeout = 0
  Durations = {0, 1}
  RequireSnapshot = TRUE
  MaxSnapshot = 3
  CloseTimes = {0, 1, 3}
  CloseBuffer = 1
  MaxStamp = 3
  MaxTime = 4
  LastPlace = 2
CHECK_DEADLOCK FALSE
INVARIANTS
  TypeOK
  UnknownTradesAwaitRefresh
PROPERTIES
  EveryTradeFinishes
