SPECIFICATION FairSpec
CONSTANTS
  Reg = {0, 1, 2}
  WordMod = 4
  UpperScale = 4
  TextSize = 4
  Program <- RunProgram
  Scenario <- RunScenario
  Index <- MCIndex
  HistoryMod = 2
  ExecutionLimit = 3
  RetiredCap = 4
  PcBound = 4
PROPERTIES
  RunEnds
CHECK_DEADLOCK FALSE
