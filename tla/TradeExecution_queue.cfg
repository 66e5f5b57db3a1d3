SPECIFICATION Spec
CONSTANTS
  Trades = {t1, t2}
  MaxTrades = 2
  OrderInterval = 1
  QueueTimeout = 2
  ResponseTimeout = 1
  Durations = {1}
  RequireSnapshot = TRUE
  MaxSnapshot = 1
  CloseTimes = {2}
  CloseBuffer = 0
  MaxStamp = 9
  MaxTime = 3
  LastPlace = 1
SYMMETRY TradeSymmetry
CHECK_DEADLOCK FALSE
INVARIANTS
  PublicCountExact
  LimitRespected
  CheckOwnsItsTrade
PROPERTIES
  ReportsInOrder
  SettledIsReported
  SendIsSafe
  KeepsPromise
