SPECIFICATION SpecSession
CONSTANTS
  Reg = {0, 1, 2}
  WordMod = 8
  UpperScale = 4
  TextSize = 4
  Program <- MCProgram
  Scenario <- MCScenario
  Index <- MCIndex
  HistoryMod = 4
  ExecutionLimit = 6
  RetiredCap = 7
  PcBound = 8
INVARIANTS
  TypeOK
  OperandsCurrent
  FlagsConsumed
  TargetBufferSound
  FetchFollowsPrediction
  TrainsConsultedCounter
  FinishedAtProgramEnd
PROPERTIES
  ImplementsMachine
  RunAdvances
CHECK_DEADLOCK FALSE
