SPECIFICATION FairSpec
CONSTANTS
  Tasks = {t1, t2}
  Initialize = Initialize
  Loop = Loop
  Events = {v1, v2}
  Runners = {r1}
  Stoppers = {s1, s2}
  Worker = Worker
  Owner = Owner
  NoOne = NoOne
  DrainRounds = 1
CHECK_DEADLOCK FALSE
INVARIANTS
  CalledInOrder
  StoppedSettled
  OneExecutor
  NoRunAfterCancel
  ComponentsAlive
  RunSchedulesBoth
  EarlyEventsDelivered
PROPERTIES
  StoppedIsFinal
  StopCompletes
  AcceptedIsCalled
