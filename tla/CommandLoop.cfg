SPECIFICATION FairSpec
CONSTANTS
  FlushTicks = 5
  QueueCap = 2
INVARIANTS
  TypeOK
  RunningFlagCovers
  OnlyJoinDeadlocks
PROPERTIES
  JoinEnds
  StopTakesHold
  InputDelivered
CHECK_DEADLOCK FALSE
