SPECIFICATION SteppingSpec
CONSTANTS
  FlushTicks = 5
  QueueCap = 2
PROPERTIES
  StepExecutes
CHECK_DEADLOCK FALSE
